---- MODULE Spec2Model ----
(***************************************************************************)
(* Ticket dashboard: status engine, user and ticket services over the      *)
(* relational store (src/services.py, src/db.py), the table-driven         *)
(* variant of the status engine (src/Mein Ticketsystem/services.py) and    *)
(* the ticket repository of the single-file variant (src/nebank.py).       *)
(*                                                                         *)
(* Conventions: SQL NULL / Python None is the value NULL; timestamps are   *)
(* integers (seconds of the UTC clock); a string that the code inspects    *)
(* character by character is a sequence of one-character strings.          *)
(***************************************************************************)
EXTENDS Integers, Sequences, FiniteSets, TLC

VARIABLES users, tickets, now, op, walk

vars == <<users, tickets, now, op, walk>>

\* SQL NULL / Python None
NULL == -1

----------------------------------------------------------------------------
(* Bounds of the model *)

\* number of next/prev applications in one status walk
MaxWalk == 5

\* number of writing service calls in one run of the ticket service
MaxCalls == 3

\* last second the clock reaches
MaxClock == 2

\* number of fixture rows in a stored set of tickets
MaxRows == 3

\* number of rows of the users table
MaxUsers == 2

\* number of tickets one run of the ticket service creates
MaxTickets == 2

\* no service call has been made yet
NoCall == [seq |-> 0, name |-> "none"]

----------------------------------------------------------------------------
(* Status engine *)

STATI == <<"Neu", "In Bearbeitung", "Warten auf Benutzer", "Gelöst", "Geschlossen">>

Min(a, b) == IF a < b THEN a ELSE b

Max(a, b) == IF a > b THEN a ELSE b

\* list.index(value) with 1-based positions; 0 stands for the ValueError
ListIndex(list, value) ==
    IF \E i \in 1..Len(list) : list[i] = value
    THEN CHOOSE i \in 1..Len(list) :
            /\ list[i] = value
            /\ \A j \in 1..(i - 1) : list[j] # value
    ELSE 0

\* next_status without the clamp at the last status: the index wraps around
next_status_wrap(s) ==
    LET i == ListIndex(STATI, s)
    IN  IF i = 0 THEN s ELSE STATI[(i % Len(STATI)) + 1]

next_status(s) ==
    LET i == ListIndex(STATI, s)
    IN  IF i = 0 THEN s ELSE STATI[Min(i + 1, Len(STATI))]

\* prev_status that steps back two positions instead of one
prev_status_skip(s) ==
    LET i == ListIndex(STATI, s)
    IN  IF i = 0 THEN s ELSE STATI[Max(i - 2, 1)]

\* prev_status without the clamp at the first status: index -1 is the last element
prev_status_wrap(s) ==
    LET i == ListIndex(STATI, s)
    IN  IF i = 0 THEN s ELSE STATI[IF i = 1 THEN Len(STATI) ELSE i - 1]

prev_status(s) ==
    LET i == ListIndex(STATI, s)
    IN  IF i = 0 THEN s ELSE STATI[Max(i - 1, 1)]

NEXT_STATUS ==
    [s \in {"Neu", "In Bearbeitung", "Warten auf Benutzer", "Gelöst"} |->
        CASE s = "Neu" -> "In Bearbeitung"
          [] s = "In Bearbeitung" -> "Warten auf Benutzer"
          [] s = "Warten auf Benutzer" -> "Gelöst"
          [] s = "Gelöst" -> "Geschlossen"]

PREV_STATUS ==
    [s \in {"Geschlossen", "Gelöst", "Warten auf Benutzer", "In Bearbeitung"} |->
        CASE s = "Geschlossen" -> "Gelöst"
          [] s = "Gelöst" -> "Warten auf Benutzer"
          [] s = "Warten auf Benutzer" -> "In Bearbeitung"
          [] s = "In Bearbeitung" -> "Neu"]

\* status values handed to the engine: the five statuses and two foreign values
StatusInputs ==
    {STATI[i] : i \in 1..Len(STATI)} \cup {"Erledigt", ""}

----------------------------------------------------------------------------
(* Status walk: repeated application of next_status / prev_status *)

InitWalk == \E s \in StatusInputs : walk = [start |-> s, cur |-> s, calls |-> <<>>]

ApplyNext ==
    /\ Len(walk.calls) < MaxWalk
    /\ walk' = [walk EXCEPT
                  !.cur = next_status(walk.cur),
                  !.calls = Append(@, [fn |-> "next_status", arg |-> walk.cur,
                                       ret |-> next_status(walk.cur)])]
    /\ UNCHANGED <<users, tickets, now, op>>

ApplyPrev ==
    /\ Len(walk.calls) < MaxWalk
    /\ walk' = [walk EXCEPT
                  !.cur = prev_status(walk.cur),
                  !.calls = Append(@, [fn |-> "prev_status", arg |-> walk.cur,
                                       ret |-> prev_status(walk.cur)])]
    /\ UNCHANGED <<users, tickets, now, op>>

InitStatus ==
    /\ users = <<>>
    /\ tickets = <<>>
    /\ now = 0
    /\ op = NoCall
    /\ InitWalk

NextStatus == ApplyNext \/ ApplyPrev

SpecStatus == InitStatus /\ [][NextStatus]_vars

----------------------------------------------------------------------------
(* Credentials *)

\* bcrypt.hashpw(password, gensalt()): the salt and the digest of salt and
\* password; the digest is kept as the pair it is computed from
hash_pw_bcrypt(password, salt) == [salt |-> salt, digest |-> <<salt, password>>]

\* bcrypt.checkpw: recompute the digest with the stored salt and compare
verify_pw_bcrypt(password, stored_hash) ==
    stored_hash.digest = <<stored_hash.salt, password>>

----------------------------------------------------------------------------
(* Users table *)

Whitespace == {" "}

RECURSIVE lstrip(_)
lstrip(str) ==
    IF str # <<>> /\ Head(str) \in Whitespace THEN lstrip(Tail(str)) ELSE str

RECURSIVE rstrip(_)
rstrip(str) ==
    IF str # <<>> /\ str[Len(str)] \in Whitespace
    THEN rstrip(SubSeq(str, 1, Len(str) - 1))
    ELSE str

\* str.strip()
strip(str) == rstrip(lstrip(str))

\* SELECT ... FROM users WHERE username=%s
users_by_username(tbl, username) ==
    SelectSeq(tbl, LAMBDA u : u.username = username)

\* get_user_by_username that returns the row whatever its active flag is
get_user_by_username_any(tbl, username) ==
    LET rows == users_by_username(tbl, strip(username))
    IN  IF rows = <<>> THEN <<>> ELSE <<rows[1]>>

\* the row as a sequence of one element, the empty sequence for None
get_user_by_username(tbl, username) ==
    LET rows == users_by_username(tbl, strip(username))
    IN  IF rows = <<>> \/ rows[1].active # 1 THEN <<>> ELSE <<rows[1]>>

\* the session payload as a sequence of one element, the empty sequence for None
login_user(tbl, username, password) ==
    LET u == get_user_by_username(tbl, strip(username))
    IN  IF u = <<>> THEN <<>>
        ELSE IF verify_pw_bcrypt(password, u[1].password_hash)
             THEN <<[id |-> u[1].id, username |-> u[1].username, role |-> u[1].role]>>
             ELSE <<>>

\* a unique key that only counts the users that are still active
username_taken_active(tbl, username) ==
    \E i \in 1..Len(tbl) : tbl[i].username = username /\ tbl[i].active = 1

\* the unique key on the login identifier rejects the INSERT
username_taken(tbl, username) == \E i \in 1..Len(tbl) : tbl[i].username = username

\* INSERT INTO users (username, password_hash, role): auto-increment id,
\* active defaults to 1 and deleted_at to NULL
insert_user(tbl, username, pw_hash, role) ==
    Append(tbl, [id |-> Len(tbl) + 1, username |-> username, password_hash |-> pw_hash,
                 role |-> role, active |-> 1, deleted_at |-> NULL])

\* a deactivation that removes the row: DELETE FROM users WHERE id=%s
deactivate_user_delete(tbl, user_id, n) ==
    SelectSeq(tbl, LAMBDA u : u.id # user_id)

\* UPDATE users SET active=0, deleted_at=NOW() WHERE id=%s
deactivate_user(tbl, user_id, n) ==
    [i \in 1..Len(tbl) |->
        IF tbl[i].id = user_id
        THEN [tbl[i] EXCEPT !.active = 0, !.deleted_at = n]
        ELSE tbl[i]]

\* the characters of the usernames in the order of the collation
Collation == <<" ", "a", "b", "c", "d", "e", "i", "l", "m", "n", "o", "v">>

\* the position of a character in the collation
CharRank(ch) == CHOOSE k \in 1..Len(Collation) : Collation[k] = ch

\* a <= b in the order ORDER BY puts strings in
RECURSIVE str_le(_, _)
str_le(a, b) ==
    IF a = <<>> THEN TRUE
    ELSE IF b = <<>> THEN FALSE
    ELSE IF Head(a) = Head(b) THEN str_le(Tail(a), Tail(b))
    ELSE CharRank(Head(a)) < CharRank(Head(b))

\* the arrangements of the rows of the index set idx in ascending username
by_username(tbl, idx) ==
    LET n == Cardinality(idx)
    IN  { order \in [1..n -> idx] :
            /\ \A i, j \in 1..n : i # j => order[i] # order[j]
            /\ \A i \in 1..(n - 1) :
                  str_le(tbl[order[i]].username, tbl[order[i + 1]].username) }

\* list_users without the condition on the active column
list_users_all(tbl) ==
    { [i \in 1..Len(tbl) |->
          [id |-> tbl[order[i]].id, username |-> tbl[order[i]].username,
           role |-> tbl[order[i]].role]] :
        order \in by_username(tbl, 1..Len(tbl)) }

\* SELECT id, username, role FROM users WHERE active=1 ORDER BY username:
\* the results the store can return
list_users(tbl) ==
    LET idx == {i \in 1..Len(tbl) : tbl[i].active = 1}
    IN  { [i \in 1..Cardinality(idx) |->
              [id |-> tbl[order[i]].id, username |-> tbl[order[i]].username,
               role |-> tbl[order[i]].role]] :
            order \in by_username(tbl, idx) }

\* users of the dump: admin (admin, active), alice (user, deactivated), bob (user, active)
SeedUsers ==
    LET pw == <<"p", "w">>
        u1 == insert_user(<<>>, <<"a", "d", "m", "i", "n">>, hash_pw_bcrypt(pw, 1), "admin")
        u2 == insert_user(u1, <<"a", "l", "i", "c", "e">>, hash_pw_bcrypt(pw, 2), "user")
        u3 == insert_user(u2, <<"b", "o", "b">>, hash_pw_bcrypt(pw, 3), "user")
    IN  deactivate_user(u3, 2, 0)

----------------------------------------------------------------------------
(* Tickets table *)

PRIO == <<"Niedrig", "Normal", "Hoch", "Kritisch">>

\* INSERT that also fills assignee_id, with the creator
insert_ticket_selfassign(tbl, title, description, category, priority, creator_id, n) ==
    Append(tbl, [id |-> Len(tbl) + 1, title |-> title, description |-> description,
                 category |-> category, status |-> "Neu", priority |-> priority,
                 creator_id |-> creator_id, assignee_id |-> creator_id,
                 created_at |-> n, updated_at |-> n, archived |-> 0])

\* INSERT INTO tickets (title, description, category, status, priority,
\* creator_id, created_at, updated_at, archived): auto-increment id,
\* assignee_id is not listed and stays NULL
insert_ticket(tbl, title, description, category, priority, creator_id, n) ==
    Append(tbl, [id |-> Len(tbl) + 1, title |-> title, description |-> description,
                 category |-> category, status |-> "Neu", priority |-> priority,
                 creator_id |-> creator_id, assignee_id |-> NULL,
                 created_at |-> n, updated_at |-> n, archived |-> 0])

\* the empty keyword mapping
NoFields == [c \in {} |-> NULL]

\* dict.setdefault("updated_at", value)
setdefault_updated_at(fields, value) ==
    [c \in DOMAIN fields \cup {"updated_at"} |->
        IF c \in DOMAIN fields THEN fields[c] ELSE value]

\* an UPDATE that is skipped when the row carries a later updated_at than the
\* one it would write
update_rows_if_newer(tbl, tid, fields) ==
    [i \in 1..Len(tbl) |->
        IF tbl[i].id = tid /\ fields["updated_at"] >= tbl[i].updated_at
        THEN [c \in DOMAIN tbl[i] |-> IF c \in DOMAIN fields THEN fields[c] ELSE tbl[i][c]]
        ELSE tbl[i]]

\* UPDATE tickets SET k=%s, ... WHERE id=%s
update_rows(tbl, tid, fields) ==
    [i \in 1..Len(tbl) |->
        IF tbl[i].id = tid
        THEN [c \in DOMAIN tbl[i] |-> IF c \in DOMAIN fields THEN fields[c] ELSE tbl[i][c]]
        ELSE tbl[i]]

\* update_ticket without the early return on an empty mapping
update_ticket_always(tbl, tid, fields, n) ==
    update_rows(tbl, tid, setdefault_updated_at(fields, n))

\* the tickets table after update_ticket(tid, **fields) at instant n
update_ticket(tbl, tid, fields, n) ==
    IF DOMAIN fields = {} THEN tbl
    ELSE update_rows(tbl, tid, setdefault_updated_at(fields, n))

----------------------------------------------------------------------------
(* Ticket queries *)

\* text LIKE pattern: % matches any run of characters, _ any one character
RECURSIVE like(_, _)
like(text, pattern) ==
    IF pattern = <<>> THEN text = <<>>
    ELSE IF Head(pattern) = "%"
         THEN like(text, Tail(pattern)) \/ (text # <<>> /\ like(Tail(text), pattern))
         ELSE /\ text # <<>>
              /\ Head(pattern) = "_" \/ Head(pattern) = Head(text)
              /\ like(Tail(text), Tail(pattern))

\* f"%{search_term}%"
like_pattern(search_term) == <<"%">> \o search_term \o <<"%">>

\* the WHERE clause of fetch_tickets; None is NULL for creator_id, the empty
\* sequence for search_term and the empty string for category and priority
fetch_where(t, creator_id, archived, search_term, category, priority) ==
    /\ archived \/ t.archived = 0
    /\ creator_id = NULL \/ t.creator_id = creator_id
    /\ \/ search_term = <<>>
       \/ like(t.title, like_pattern(search_term))
       \/ like(t.description, like_pattern(search_term))
    /\ category \in {"", "Alle"} \/ t.category = category
    /\ priority \in {"", "Alle"} \/ t.priority = priority

\* the username of the user with this id, the empty sequence when there is none
username_of(utbl, user_id) ==
    IF \E i \in 1..Len(utbl) : utbl[i].id = user_id
    THEN utbl[CHOOSE i \in 1..Len(utbl) : utbl[i].id = user_id].username
    ELSE <<>>

\* SELECT t.*, u.username AS creator_name, a.username AS assignee_name
\* FROM tickets t JOIN users u ON u.id = t.creator_id
\*                LEFT JOIN users a ON a.id = t.assignee_id
joined_row(utbl, t) ==
    [c \in DOMAIN t \cup {"creator_name", "assignee_name"} |->
        IF c = "creator_name" THEN username_of(utbl, t.creator_id)
        ELSE IF c = "assignee_name" THEN username_of(utbl, t.assignee_id)
        ELSE t[c]]

\* ORDER BY updated_at DESC: every arrangement of the rows of the index set
\* idx that is descending in updated_at (rows with equal stamps in any order)
ordered_desc(tbl, idx) ==
    LET n == Cardinality(idx)
    IN  { order \in [1..n -> idx] :
            /\ \A i, j \in 1..n : i # j => order[i] # order[j]
            /\ \A i \in 1..(n - 1) :
                  tbl[order[i]].updated_at >= tbl[order[i + 1]].updated_at }

\* the rows selected by the WHERE clause and the inner join on the creator
fetch_selected(utbl, tbl, creator_id, archived, search_term, category, priority) ==
    { i \in 1..Len(tbl) :
        /\ fetch_where(tbl[i], creator_id, archived, search_term, category, priority)
        /\ \E k \in 1..Len(utbl) : utbl[k].id = tbl[i].creator_id }

\* fetch_tickets without the condition on the archived column
fetch_tickets_all(utbl, tbl, creator_id, archived, search_term, category, priority) ==
    LET idx == fetch_selected(utbl, tbl, creator_id, TRUE, search_term, category, priority)
    IN  { [i \in 1..Cardinality(idx) |-> joined_row(utbl, tbl[order[i]])] :
            order \in ordered_desc(tbl, idx) }

\* the results fetch_tickets can return: one per order the store may choose
fetch_tickets(utbl, tbl, creator_id, archived, search_term, category, priority) ==
    LET idx == fetch_selected(utbl, tbl, creator_id, archived, search_term, category, priority)
    IN  { [i \in 1..Cardinality(idx) |-> joined_row(utbl, tbl[order[i]])] :
            order \in ordered_desc(tbl, idx) }

\* COUNT(*) restricted to the rows with column = value
count_where(tbl, column, value) ==
    Cardinality({i \in 1..Len(tbl) : tbl[i][column] = value})

\* SUM(CASE WHEN column = value THEN 1 ELSE 0 END): NULL over no rows
sum_case(tbl, column, value) ==
    IF tbl = <<>> THEN NULL ELSE count_where(tbl, column, value)

\* the row get_ticket_stats returns
get_ticket_stats(tbl) ==
    [total |-> Len(tbl),
     neue |-> sum_case(tbl, "status", "Neu"),
     in_bearbeitung |-> sum_case(tbl, "status", "In Bearbeitung"),
     geloest |-> sum_case(tbl, "status", "Gelöst"),
     archiviert |-> sum_case(tbl, "archived", 1)]

----------------------------------------------------------------------------
(* Ticket service: writing calls *)

\* arguments of create_ticket: rows 2 and 1 of the dump (shortened), a call
\* with a priority outside PRIO and a call with a blank title
TicketInputs ==
    { [title |-> <<"V", "P", "N">>, description |-> <<"a", "b">>,
       category |-> "Netzwerk", priority |-> "Normal", creator_id |-> 3],
      [title |-> <<"P", "C">>, description |-> <<"a", "u", "s">>,
       category |-> "Hardware", priority |-> "Hoch", creator_id |-> 1],
      [title |-> <<"V", "P", "N">>, description |-> <<"a", "b">>,
       category |-> "Netzwerk", priority |-> "urgent!!", creator_id |-> 3],
      [title |-> <<" ">>, description |-> <<"a", "b">>,
       category |-> "Hardware", priority |-> "Hoch", creator_id |-> 1] }

\* keyword mappings of update_ticket at instant n: none, the kanban arrow, the
\* kanban save, the admin form, a caller that passes an earlier instant, and
\* a caller that names the title and creator_id columns
FieldInputs(n) ==
    { NoFields,
      [status |-> "In Bearbeitung", updated_at |-> n],
      [assignee_id |-> 3, updated_at |-> n],
      [status |-> "Gelöst", priority |-> "Hoch", category |-> "Software",
       assignee_id |-> 1, archived |-> 1],
      [status |-> "Geschlossen", updated_at |-> 0],
      [title |-> <<"X">>, creator_id |-> 2] }

\* the clock advances by one second
Tick ==
    /\ now < MaxClock
    /\ now' = now + 1
    /\ UNCHANGED <<users, tickets, op, walk>>

CreateTicket ==
    /\ op.seq < MaxCalls
    /\ Len(tickets) < MaxTickets
    /\ \E a \in TicketInputs :
          /\ tickets' = insert_ticket(tickets, a.title, a.description, a.category,
                                      a.priority, a.creator_id, now)
          /\ op' = [seq |-> op.seq + 1, name |-> "create_ticket", at |-> now, args |-> a,
                    ret |-> NULL, raised |-> ""]
    /\ UNCHANGED <<users, now, walk>>

UpdateTicket ==
    /\ op.seq < MaxCalls
    /\ \E tid \in 1..(Len(tickets) + 1), f \in FieldInputs(now) :
          /\ tickets' = update_ticket(tickets, tid, f, now)
          /\ op' = [seq |-> op.seq + 1, name |-> "update_ticket", at |-> now,
                    args |-> [tid |-> tid, fields |-> f], raised |-> ""]
    /\ UNCHANGED <<users, now, walk>>

InitTicket ==
    /\ users = SeedUsers
    /\ tickets = <<>>
    /\ now = 1
    /\ op = NoCall
    /\ walk = [start |-> "Neu", cur |-> "Neu", calls |-> <<>>]

NextTicket == CreateTicket \/ UpdateTicket \/ Tick

SpecTicket == InitTicket /\ [][NextTicket]_vars

----------------------------------------------------------------------------
(* Ticket service: reading calls over a stored fixture *)

\* tickets of the dump (rows 1, 2, 3, 5 and 12, texts shortened, instants ranked)
FixtureTickets ==
    << [title |-> <<"P", "C">>, description |-> <<"a", "u", "s">>, category |-> "Hardware",
        status |-> "Neu", priority |-> "Hoch", creator_id |-> 2, assignee_id |-> 1,
        created_at |-> 1, updated_at |-> 2, archived |-> 1],
       [title |-> <<"V", "P", "N">>, description |-> <<"a", "b">>, category |-> "Netzwerk",
        status |-> "Neu", priority |-> "Normal", creator_id |-> 2, assignee_id |-> 3,
        created_at |-> 1, updated_at |-> 3, archived |-> 0],
       [title |-> <<"X", "A", "p", "p">>, description |-> <<"4", "2">>, category |-> "Software",
        status |-> "Gelöst", priority |-> "Niedrig", creator_id |-> 3, assignee_id |-> 1,
        created_at |-> 1, updated_at |-> 5, archived |-> 0],
       [title |-> <<"T", "F", "T">>, description |-> <<"n", "e", "u">>, category |-> "Sonstiges",
        status |-> "Geschlossen", priority |-> "Niedrig", creator_id |-> 3, assignee_id |-> NULL,
        created_at |-> 1, updated_at |-> 1, archived |-> 1],
       [title |-> <<"W", "i", "n">>, description |-> <<"U", "p">>, category |-> "Software",
        status |-> "In Bearbeitung", priority |-> "Hoch", creator_id |-> 1, assignee_id |-> NULL,
        created_at |-> 4, updated_at |-> 6, archived |-> 0] >>

\* the table that holds the fixture rows picked by the index set, ids in order
StoreOf(picked) ==
    LET n == Cardinality(picked)
        at(k) == CHOOSE i \in picked : Cardinality({j \in picked : j < i}) = k - 1
    IN  [k \in 1..n |->
            [c \in DOMAIN FixtureTickets[at(k)] \cup {"id"} |->
                IF c = "id" THEN k ELSE FixtureTickets[at(k)][c]]]

\* filter arguments of fetch_tickets
FilterInputs ==
    [creator_id : {NULL, 3}, archived : BOOLEAN, search_term : {<<>>, <<"a">>, <<"_">>},
     category : {"", "Alle", "Software"}, priority : {"", "Niedrig"}]

FetchTickets ==
    /\ \E a \in FilterInputs :
          \E rows \in fetch_tickets(users, tickets, a.creator_id, a.archived,
                                    a.search_term, a.category, a.priority) :
              op' = [seq |-> op.seq, name |-> "fetch_tickets", at |-> now,
                     args |-> a, ret |-> rows]
    /\ UNCHANGED <<users, tickets, now, walk>>

GetTicketStats ==
    /\ op' = [seq |-> op.seq, name |-> "get_ticket_stats", at |-> now,
              ret |-> get_ticket_stats(tickets)]
    /\ UNCHANGED <<users, tickets, now, walk>>

InitQuery ==
    /\ users = SeedUsers
    /\ \E picked \in SUBSET (1..Len(FixtureTickets)) :
          /\ Cardinality(picked) <= MaxRows
          /\ tickets = StoreOf(picked)
    /\ now = 7
    /\ op = NoCall
    /\ walk = [start |-> "Neu", cur |-> "Neu", calls |-> <<>>]

NextQuery == FetchTickets \/ GetTicketStats

SpecQuery == InitQuery /\ [][NextQuery]_vars

----------------------------------------------------------------------------
(* Ticket service: the admin listing between writing calls *)

\* the last writing call before the call c
LastWrite(c) == IF c.name = "fetch_tickets" THEN c.last ELSE c

\* fetch_tickets(archived=show_arch) of the admin page
FetchTicketsAdmin ==
    /\ \E show_arch \in BOOLEAN :
          \E rows \in fetch_tickets(users, tickets, NULL, show_arch, <<>>, "", "") :
              op' = [seq |-> op.seq, name |-> "fetch_tickets", at |-> now,
                     args |-> [creator_id |-> NULL, archived |-> show_arch,
                               search_term |-> <<>>, category |-> "", priority |-> ""],
                     ret |-> rows, last |-> LastWrite(op)]
    /\ UNCHANGED <<users, tickets, now, walk>>

NextBoard == CreateTicket \/ UpdateTicket \/ FetchTicketsAdmin \/ Tick

SpecBoard == InitTicket /\ [][NextBoard]_vars

----------------------------------------------------------------------------
(* User service *)

\* arguments of create_user: username, password, role
UserInputs ==
    { [username |-> <<"b", "o", "b">>, password |-> <<"p", "w">>, role |-> "user"],
      [username |-> <<" ", "e", "v">>, password |-> <<"p", "w">>, role |-> "admin"],
      [username |-> <<"e", "v">>, password |-> <<"p", "w">>, role |-> "user"],
      [username |-> <<"e", "v">>, password |-> <<"x">>, role |-> "admin"] }

\* salts bcrypt.gensalt() draws
SaltInputs == {1, 2}

\* arguments of login_user: username, password
LoginInputs ==
    [username : {<<"b", "o", "b">>, <<"b", "o", "b", " ">>, <<" ", "e", "v">>, <<"e", "v">>},
     password : {<<"p", "w">>, <<"x">>}]

CreateUser ==
    /\ Len(users) < MaxUsers
    /\ \E a \in UserInputs, salt \in SaltInputs :
          IF username_taken(users, a.username)
          THEN /\ users' = users
               /\ op' = [seq |-> op.seq, name |-> "create_user", at |-> now, args |-> a,
                         raised |-> "IntegrityError"]
          ELSE /\ users' = insert_user(users, a.username,
                                       hash_pw_bcrypt(a.password, salt), a.role)
               /\ op' = [seq |-> op.seq, name |-> "create_user", at |-> now, args |-> a,
                         raised |-> ""]
    /\ UNCHANGED <<tickets, now, walk>>

DeactivateUser ==
    /\ \E user_id \in 1..(Len(users) + 1) :
          /\ users' = deactivate_user(users, user_id, now)
          /\ op' = [seq |-> op.seq, name |-> "deactivate_user", at |-> now,
                    args |-> [user_id |-> user_id], raised |-> ""]
    /\ UNCHANGED <<tickets, now, walk>>

LoginUser ==
    /\ \E a \in LoginInputs :
          op' = [seq |-> op.seq, name |-> "login_user", at |-> now, args |-> a,
                 ret |-> login_user(users, a.username, a.password)]
    /\ UNCHANGED <<users, tickets, now, walk>>

ListUsers ==
    /\ \E rows \in list_users(users) :
          op' = [seq |-> op.seq, name |-> "list_users", at |-> now, ret |-> rows]
    /\ UNCHANGED <<users, tickets, now, walk>>

InitAuth ==
    /\ users = <<>>
    /\ tickets = <<>>
    /\ now = 1
    /\ op = NoCall
    /\ walk = [start |-> "Neu", cur |-> "Neu", calls |-> <<>>]

NextAuth == CreateUser \/ DeactivateUser \/ LoginUser \/ ListUsers \/ Tick

SpecAuth == InitAuth /\ [][NextAuth]_vars

----------------------------------------------------------------------------
(* Ticket listings over a stored fixture while users are deactivated *)

NextSoftDelete == FetchTickets \/ DeactivateUser

SpecSoftDelete == InitQuery /\ [][NextSoftDelete]_vars

----------------------------------------------------------------------------
(* The connection scope of one store operation: get_conn and query_execute *)

\* the statements of the writing calls of the ticket service
Statements(n) ==
    { [kind |-> "create_ticket", a |-> a] : a \in TicketInputs }
        \cup { [kind |-> "update_ticket", tid |-> 1, fields |-> f] :
                   f \in FieldInputs(n) \ {NoFields} }

\* cur.execute(sql, params): the table as the open transaction sees it
execute(tbl, stmt, n) ==
    IF stmt.kind = "create_ticket"
    THEN insert_ticket(tbl, stmt.a.title, stmt.a.description, stmt.a.category,
                       stmt.a.priority, stmt.a.creator_id, n)
    ELSE update_ticket(tbl, stmt.tid, stmt.fields, n)

\* an except clause that commits instead of rolling back
exit_commit_always(raised) == "commit"

\* the branch get_conn takes when the body and the commit are over: commit
\* after a body without exception, rollback and re-raise after an exception
exit(raised) == IF raised = "" THEN "commit" ELSE "rollback"

\* conn = pymysql.connect(**DB_CONFIG), entering the try block; the connect
\* itself can fail, and then there is no connection and no transaction
Connect ==
    /\ op.name = "none" \/ (op.name = "query_execute" /\ op.pc = "done")
    /\ op.seq < MaxCalls
    /\ Len(tickets) < MaxTickets
    /\ \E stmt \in Statements(now), ok \in BOOLEAN :
          op' = [seq |-> op.seq + 1, name |-> "query_execute", at |-> now,
                 stmt |-> stmt, before |-> tickets, pending |-> tickets,
                 pc |-> IF ok THEN "body" ELSE "done",
                 conn |-> IF ok THEN "open" ELSE "none",
                 executed |-> 0, outcome |-> "",
                 raised |-> IF ok THEN "" ELSE "OperationalError"]
    /\ UNCHANGED <<users, tickets, now, walk>>

\* the body of the with block: cur.execute either changes the rows inside the
\* transaction or raises and changes nothing
Execute ==
    /\ op.name = "query_execute" /\ op.pc = "body"
    /\ \E ok \in BOOLEAN :
          op' = [op EXCEPT !.executed = @ + 1,
                           !.pending = IF ok THEN execute(@, op.stmt, op.at) ELSE @,
                           !.raised = IF ok THEN "" ELSE "Error",
                           !.pc = "exit"]
    /\ UNCHANGED <<users, tickets, now, walk>>

\* conn.commit() after the yield: makes the changes visible, or raises
Commit ==
    /\ op.name = "query_execute" /\ op.pc = "exit" /\ exit(op.raised) = "commit"
    /\ op.outcome = ""
    /\ \E ok \in BOOLEAN :
          IF ok
          THEN /\ tickets' = op.pending
               /\ op' = [op EXCEPT !.outcome = "committed", !.pc = "finally"]
          ELSE /\ tickets' = tickets
               /\ op' = [op EXCEPT !.raised = "Error"]
    /\ UNCHANGED <<users, now, walk>>

\* except Exception: conn.rollback(); raise
Rollback ==
    /\ op.name = "query_execute" /\ op.pc = "exit" /\ exit(op.raised) = "rollback"
    /\ op' = [op EXCEPT !.pending = tickets, !.outcome = "rolled back", !.pc = "finally"]
    /\ UNCHANGED <<users, tickets, now, walk>>

\* finally: conn.close()
Close ==
    /\ op.name = "query_execute" /\ op.pc = "finally"
    /\ op' = [op EXCEPT !.conn = "closed", !.pc = "done"]
    /\ UNCHANGED <<users, tickets, now, walk>>

NextConn == Connect \/ Execute \/ Commit \/ Rollback \/ Close \/ Tick

SpecConn == InitTicket /\ [][NextConn]_vars

----------------------------------------------------------------------------
(* Two sessions that update the same ticket *)

Sessions == {"A", "B"}

\* the other session
Other(s) == CHOOSE o \in Sessions : o # s

\* a session that has no update under way
Idle == [pc |-> "idle"]

\* the store after the first ticket of the run was created
OneTicket ==
    LET a == CHOOSE a \in TicketInputs : a.priority = "Normal"
    IN  insert_ticket(<<>>, a.title, a.description, a.category, a.priority, a.creator_id, 1)

\* update_ticket(1, **fields) up to the statement: the mapping is completed
\* with the instant of the call before the connection is opened
RequestUpdate(s) ==
    /\ op.sess[s].pc = "idle"
    /\ \E f \in FieldInputs(now) \ {NoFields} :
          op' = [op EXCEPT !.sess[s] = [pc |-> "requested", at |-> now, fields |-> f]]
    /\ UNCHANGED <<users, tickets, now, walk>>

\* cur.execute of the UPDATE: it takes the lock on the row, and waits while
\* the transaction of the other session holds it
ExecuteUpdate(s) ==
    /\ op.sess[s].pc = "requested"
    /\ op.sess[Other(s)].pc # "executed"
    /\ op' = [op EXCEPT !.sess[s].pc = "executed"]
    /\ UNCHANGED <<users, tickets, now, walk>>

\* conn.commit(): the row written by the session becomes the stored row
CommitUpdate(s) ==
    /\ op.sess[s].pc = "executed"
    /\ tickets' = update_ticket(tickets, 1, op.sess[s].fields, op.sess[s].at)
    /\ op' = [op EXCEPT !.sess[s].pc = "committed", !.commits = Append(@, s)]
    /\ UNCHANGED <<users, now, walk>>

InitRace ==
    /\ users = SeedUsers
    /\ tickets = OneTicket
    /\ now = 1
    /\ op = [seq |-> 1, name |-> "sessions", sess |-> [s \in Sessions |-> Idle],
             commits |-> <<>>]
    /\ walk = [start |-> "Neu", cur |-> "Neu", calls |-> <<>>]

NextRace ==
    \/ \E s \in Sessions : RequestUpdate(s)
    \/ \E s \in Sessions : ExecuteUpdate(s)
    \/ \E s \in Sessions : CommitUpdate(s)
    \/ Tick

SpecRace == InitRace /\ [][NextRace]_vars

----------------------------------------------------------------------------
(* get_ticket_stats while other sessions write *)

\* the one SELECT of get_ticket_stats starts: it reads the rows committed at
\* this moment
StatsRead ==
    /\ op.name = "none" \/ (op.name = "get_ticket_stats" /\ op.pc = "done")
    /\ op' = [seq |-> op.seq, name |-> "get_ticket_stats", at |-> now, pc |-> "reading",
              snapshot |-> tickets, seen |-> {tickets}, ret |-> <<>>]
    /\ UNCHANGED <<users, tickets, now, walk>>

\* return stats[0]: the row computed from the rows that were read
StatsReturn ==
    /\ op.name = "get_ticket_stats" /\ op.pc = "reading"
    /\ op' = [op EXCEPT !.pc = "done", !.ret = get_ticket_stats(op.snapshot)]
    /\ UNCHANGED <<users, tickets, now, walk>>

\* create_ticket or update_ticket of another session commits
OtherSessionWrite ==
    /\ op.seq < MaxCalls
    /\ \/ /\ Len(tickets) < MaxTickets
          /\ \E a \in TicketInputs :
                tickets' = insert_ticket(tickets, a.title, a.description, a.category,
                                         a.priority, a.creator_id, now)
       \/ \E tid \in 1..Len(tickets), f \in FieldInputs(now) \ {NoFields} :
             tickets' = update_ticket(tickets, tid, f, now)
    /\ op' = IF op.name = "get_ticket_stats" /\ op.pc = "reading"
             THEN [op EXCEPT !.seq = @ + 1, !.seen = @ \cup {tickets'}]
             ELSE [op EXCEPT !.seq = @ + 1]
    /\ UNCHANGED <<users, now, walk>>

NextStats == StatsRead \/ StatsReturn \/ OtherSessionWrite

SpecStats == InitTicket /\ [][NextStats]_vars

----------------------------------------------------------------------------
(* Kanban arrows of two sessions on the same ticket *)

\* an arrow that moves from the status the store holds at the click
clicked_status_stored(t, stored, dir) ==
    IF dir = "next" THEN next_status(stored.status) ELSE prev_status(stored.status)

\* the status an arrow writes: next_status or prev_status of the status of
\* the row t that the page run fetched
clicked_status(t, stored, dir) ==
    IF dir = "next" THEN next_status(t.status) ELSE prev_status(t.status)

\* a session that has not loaded the board
NoBoard == [pc |-> "idle", view |-> <<>>, dir |-> "", wrote |-> "", before |-> ""]

\* tickets = fetch_tickets(...) of page_kanban: the session holds the row it
\* fetched until its next run
RenderBoard(s) ==
    /\ \E rows \in fetch_tickets(users, tickets, NULL, FALSE, <<>>, "", "") :
          op' = [op EXCEPT !.sess[s] = [NoBoard EXCEPT !.pc = "rendered", !.view = rows]]
    /\ UNCHANGED <<users, tickets, now, walk>>

\* the left or right arrow of the card: update_ticket(t["id"],
\* status=prev_status/next_status(t["status"]), updated_at=now_utc_str())
ClickArrow(s) ==
    /\ op.sess[s].pc = "rendered"
    /\ op.seq < MaxCalls
    /\ \E dir \in {"prev", "next"} :
          LET t == op.sess[s].view[1]
              stored == tickets[CHOOSE i \in 1..Len(tickets) : tickets[i].id = t.id]
              status == clicked_status(t, stored, dir)
          IN  /\ tickets' = update_ticket(tickets, t.id,
                                          [status |-> status, updated_at |-> now], now)
              /\ op' = [op EXCEPT !.seq = @ + 1, !.last = [by |-> s, status |-> status],
                                  !.sess[s] = [pc |-> "clicked", view |-> op.sess[s].view,
                                               dir |-> dir, wrote |-> status,
                                               before |-> stored.status]]
    /\ UNCHANGED <<users, now, walk>>

InitKanban ==
    /\ users = SeedUsers
    /\ tickets = OneTicket
    /\ now = 1
    /\ op = [seq |-> 0, name |-> "kanban", sess |-> [s \in Sessions |-> NoBoard],
             last |-> [by |-> "", status |-> ""]]
    /\ walk = [start |-> "Neu", cur |-> "Neu", calls |-> <<>>]

NextKanban ==
    \/ \E s \in Sessions : RenderBoard(s)
    \/ \E s \in Sessions : ClickArrow(s)
    \/ Tick

SpecKanban == InitKanban /\ [][NextKanban]_vars

----------------------------------------------------------------------------
(* The pages of one browser session *)

\* "user_id" in st.session_state
is_logged_in(session) == session # <<>>

\* the pages the sidebar offers to a role, in the order of the radio
get_pages(role) ==
    <<"kanban", "create", "profile">> \o (IF role = "admin" THEN <<"admin">> ELSE <<>>)

\* a save that writes the archive box for every role
save_fields_any_role(assignee, arch, is_admin, n) ==
    [assignee_id |-> assignee, updated_at |-> n, archived |-> IF arch THEN 1 ELSE 0]

\* fields of the card's save button: the employee in charge and the instant,
\* and for an admin the archive box
save_fields(assignee, arch, is_admin, n) ==
    IF is_admin
    THEN [assignee_id |-> assignee, updated_at |-> n, archived |-> IF arch THEN 1 ELSE 0]
    ELSE [assignee_id |-> assignee, updated_at |-> n]

\* a deactivate button that does not look at who is selected
deactivate_disabled_for_others(victim, session, sure, confirm) ==
    (~sure) \/ confirm # victim.username

\* disabled=is_self or not sure or confirm != victim["username"]
deactivate_disabled(victim, session, sure, confirm) ==
    LET is_self == is_logged_in(session) /\ victim.id = session.user_id
    IN  is_self \/ (~sure) \/ confirm # victim.username

\* no widget has been used yet
NoEvent == [event |-> "", fired |-> FALSE]

\* credentials typed into the login form
PageLoginInputs ==
    [username : {<<"a", "d", "m", "i", "n">>, <<"b", "o", "b">>},
     password : {<<"p", "w">>, <<"x">>}]

\* texts typed into the confirmation field
ConfirmInputs == {<<>>, <<"b", "o", "b">>, <<"a", "d", "m", "i", "n">>, <<"b", "o", "b", " ">>}

\* [None] + [u["id"] for u in users]
user_ids(ulist) == {NULL} \cup {ulist[i].id : i \in 1..Len(ulist)}

\* page_login: the form's submit stores id, role and name of the user
\* login_user returned; the rerun shows the first page of the sidebar
PageLogin ==
    /\ ~is_logged_in(op.session)
    /\ \E a \in PageLoginInputs :
          LET user == login_user(users, a.username, a.password)
          IN  op' = IF user # <<>>
                    THEN [op EXCEPT !.session = [user_id |-> user[1].id,
                                                 role |-> user[1].role,
                                                 username |-> user[1].username],
                                    !.page = get_pages(user[1].role)[1],
                                    !.last = [event |-> "login", fired |-> TRUE]]
                    ELSE [op EXCEPT !.last = [event |-> "login", fired |-> FALSE]]
    /\ UNCHANGED <<users, tickets, now, walk>>

\* page_profile: the logout button removes user_id, role and username
Logout ==
    /\ is_logged_in(op.session)
    /\ op.page = "profile"
    /\ op' = [op EXCEPT !.session = <<>>, !.page = "login",
                        !.last = [event |-> "logout", fired |-> TRUE]]
    /\ UNCHANGED <<users, tickets, now, walk>>

\* route_to_selected_page: the radio offers the pages of the session's role
Route ==
    /\ is_logged_in(op.session)
    /\ \E k \in 1..Len(get_pages(op.session.role)) :
          op' = [op EXCEPT !.page = get_pages(op.session.role)[k],
                           !.last = [event |-> "route", fired |-> TRUE]]
    /\ UNCHANGED <<users, tickets, now, walk>>

\* the save button of a card of page_kanban
KanbanSave ==
    /\ is_logged_in(op.session)
    /\ op.page = "kanban"
    /\ op.seq < MaxCalls
    /\ \E show_arch \in BOOLEAN, arch \in BOOLEAN :
        \E rows \in fetch_tickets(users, tickets, NULL, show_arch, <<>>, "", ""),
           ulist \in list_users(users) :
        \E k \in 1..Len(rows), assignee \in user_ids(ulist) :
          LET t == rows[k]
              is_admin == op.session.role = "admin"
              arch_val == t.archived # 0
              fields == save_fields(assignee, IF is_admin THEN arch ELSE arch_val,
                                    is_admin, now)
          IN  /\ tickets' = update_ticket(tickets, t.id, fields, now)
              /\ op' = [op EXCEPT !.seq = @ + 1,
                                  !.last = [event |-> "kanban_save", fired |-> TRUE,
                                            id |-> t.id, fields |-> fields]]
    /\ UNCHANGED <<users, now, walk>>

\* the arrows of a card of page_kanban
KanbanArrow ==
    /\ is_logged_in(op.session)
    /\ op.page = "kanban"
    /\ op.seq < MaxCalls
    /\ \E show_arch \in BOOLEAN, dir \in {"prev", "next"} :
        \E rows \in fetch_tickets(users, tickets, NULL, show_arch, <<>>, "", "") :
        \E k \in 1..Len(rows) :
          LET t == rows[k]
              fields == [status |-> clicked_status(t, t, dir), updated_at |-> now]
          IN  /\ tickets' = update_ticket(tickets, t.id, fields, now)
              /\ op' = [op EXCEPT !.seq = @ + 1,
                                  !.last = [event |-> "kanban_arrow", fired |-> TRUE,
                                            id |-> t.id, fields |-> fields]]
    /\ UNCHANGED <<users, now, walk>>

\* the save button of a ticket of page_admin_dashboard
AdminSave ==
    /\ is_logged_in(op.session)
    /\ op.page = "admin"
    /\ op.seq < MaxCalls
    /\ \E show_arch \in BOOLEAN, arch \in BOOLEAN, status \in {"Neu", "Gelöst"} :
        \E rows \in fetch_tickets(users, tickets, NULL, show_arch, <<>>, "", ""),
           ulist \in list_users(users) :
        \E k \in 1..Len(rows), assignee \in user_ids(ulist) :
          LET t == rows[k]
              fields == [status |-> status, priority |-> "Hoch", category |-> "Software",
                         assignee_id |-> assignee, archived |-> IF arch THEN 1 ELSE 0]
          IN  /\ tickets' = update_ticket(tickets, t.id, fields, now)
              /\ op' = [op EXCEPT !.seq = @ + 1,
                                  !.last = [event |-> "admin_save", fired |-> TRUE,
                                            id |-> t.id, fields |-> fields]]
    /\ UNCHANGED <<users, now, walk>>

\* the deactivate button of page_admin_dashboard: a disabled button does
\* nothing, an enabled one calls deactivate_user(victim["id"])
AdminDeactivate ==
    /\ is_logged_in(op.session)
    /\ op.page = "admin"
    /\ \E ulist \in list_users(users), sure \in BOOLEAN, confirm \in ConfirmInputs :
        \E k \in 1..Len(ulist) :
          LET victim == ulist[k]
              disabled == deactivate_disabled(victim, op.session, sure, confirm)
          IN  /\ users' = IF disabled THEN users
                                      ELSE deactivate_user(users, victim.id, now)
              /\ op' = [op EXCEPT !.last = [event |-> "deactivate", fired |-> ~disabled,
                                            victim |-> victim, sure |-> sure,
                                            confirm |-> confirm]]
    /\ UNCHANGED <<tickets, now, walk>>

InitPages ==
    /\ users = SeedUsers
    /\ tickets = OneTicket
    /\ now = 1
    /\ op = [seq |-> 0, name |-> "pages", session |-> <<>>, page |-> "login",
             last |-> NoEvent]
    /\ walk = [start |-> "Neu", cur |-> "Neu", calls |-> <<>>]

NextPages ==
    \/ PageLogin
    \/ Logout
    \/ Route
    \/ KanbanSave
    \/ KanbanArrow
    \/ AdminSave
    \/ AdminDeactivate
    \/ Tick

SpecPages == InitPages /\ [][NextPages]_vars

----------------------------------------------------------------------------
(* The single-file variant: tables mitarbeiter and ticket *)

PRIO_WERTE == <<"niedrig", "mittel", "hoch">>

\* ID_Status of the rows of the status table, one per status name
StatusIds == 1..Len(STATI)

\* the employees: the users of the dump under the column names of mitarbeiter
SeedMitarbeiter ==
    [i \in 1..Len(SeedUsers) |->
        ("ID_Mitarbeiter" :> SeedUsers[i].id @@ "Name" :> SeedUsers[i].username
            @@ "Aktiv" :> SeedUsers[i].active)]

\* INSERT INTO ticket (Titel, Beschreibung, Priorität, ID_Status, ID_Kunde,
\* Erstellt_am, Geändert_am, Archiviert, Geändert_von): ID_Status is NULL,
\* Geändert_von is the creator
repo_ticket_erstellen(tbl, titel, beschreibung, prioritaet, id_kunde, ersteller_id, n) ==
    Append(tbl, ("ID_Ticket" :> Len(tbl) + 1 @@ "Titel" :> titel
                   @@ "Beschreibung" :> beschreibung @@ "Priorität" :> prioritaet
                   @@ "ID_Status" :> NULL @@ "ID_Kunde" :> id_kunde
                   @@ "Erstellt_am" :> n @@ "Geändert_am" :> n
                   @@ "Archiviert" :> 0 @@ "Geändert_von" :> ersteller_id))

\* a priority outside PRIO_WERTE falls back to mittel, then the row is inserted
svc_ticket_erstellen(tbl, titel, beschreibung, prioritaet, id_kunde, ersteller_id, n) ==
    LET p == IF \E i \in 1..Len(PRIO_WERTE) : PRIO_WERTE[i] = prioritaet
             THEN prioritaet ELSE "mittel"
    IN  repo_ticket_erstellen(tbl, titel, beschreibung, p, id_kunde, ersteller_id, n)

\* felder["Geändert_am"] = now; UPDATE ticket SET k=%s, ... WHERE ID_Ticket=%s
aktualisiere(tbl, ticket_id, felder, n) ==
    IF DOMAIN felder = {} THEN tbl
    ELSE LET set == ("Geändert_am" :> n) @@ felder
         IN  [i \in 1..Len(tbl) |->
                IF tbl[i]["ID_Ticket"] = ticket_id
                THEN [c \in DOMAIN tbl[i] |->
                        IF c \in DOMAIN set THEN set[c] ELSE tbl[i][c]]
                ELSE tbl[i]]

\* LEFT JOIN mitarbeiter m ON m.ID_Mitarbeiter = value: m.Name, the empty
\* sequence (NULL) when no employee has that id
mitarbeiter_name(mtbl, value) ==
    IF \E i \in 1..Len(mtbl) : mtbl[i]["ID_Mitarbeiter"] = value
    THEN mtbl[CHOOSE i \in 1..Len(mtbl) : mtbl[i]["ID_Mitarbeiter"] = value]["Name"]
    ELSE <<>>

\* the WHERE clause of hole_tickets
hole_tickets_where(t, creator_id, archiviert, suchbegriff, id_status, prioritaet) ==
    /\ archiviert \/ t["Archiviert"] = 0
    /\ creator_id = NULL \/ t["Geändert_von"] = creator_id
    /\ \/ suchbegriff = <<>>
       \/ like(t["Titel"], like_pattern(suchbegriff))
       \/ like(t["Beschreibung"], like_pattern(suchbegriff))
    /\ id_status = NULL \/ t["ID_Status"] = id_status
    /\ prioritaet = "" \/ t["Priorität"] = prioritaet

\* SELECT t.*, ersteller.Name AS creator_name, geaendert.Name AS assignee_name
\* with ersteller joined on t.Geändert_von and geaendert on t.ID_Kunde
hole_tickets_row(mtbl, t) ==
    ("creator_name" :> mitarbeiter_name(mtbl, t["Geändert_von"])
        @@ "assignee_name" :> mitarbeiter_name(mtbl, t["ID_Kunde"])) @@ t

\* the results hole_tickets can return: the selected rows in every order that
\* is descending in Geändert_am
hole_tickets(mtbl, tbl, creator_id, archiviert, suchbegriff, id_status, prioritaet) ==
    LET idx == { i \in 1..Len(tbl) :
                   hole_tickets_where(tbl[i], creator_id, archiviert, suchbegriff,
                                      id_status, prioritaet) }
        n == Cardinality(idx)
    IN  { [i \in 1..n |-> hole_tickets_row(mtbl, tbl[order[i]])] :
            order \in { o \in [1..n -> idx] :
                          /\ \A i, j \in 1..n : i # j => o[i] # o[j]
                          /\ \A i \in 1..(n - 1) :
                                tbl[o[i]]["Geändert_am"] >= tbl[o[i + 1]]["Geändert_am"] } }

\* arguments of svc_ticket_erstellen: without and with a customer
ErstellenInputs ==
    { [titel |-> <<"V", "P", "N">>, beschreibung |-> <<"a", "b">>,
       prioritaet |-> "hoch", id_kunde |-> NULL, ersteller_id |-> 3],
      [titel |-> <<"P", "C">>, beschreibung |-> <<"a", "u", "s">>,
       prioritaet |-> "dringend", id_kunde |-> 1, ersteller_id |-> 1] }

\* keyword mappings of update_ticket: none, the kanban arrow of the single
\* file, the kanban arrow of the package (the status and the id of the
\* session's user), and the admin form with and without an employee in charge
FelderInputs ==
    { NoFields,
      ("ID_Status" :> NULL),
      ("ID_Status" :> 3 @@ "Geändert_von" :> 1),
      ("ID_Status" :> 2 @@ "Priorität" :> "hoch" @@ "Geändert_von" :> 3 @@ "Archiviert" :> 0),
      ("ID_Status" :> 1 @@ "Priorität" :> "mittel" @@ "Geändert_von" :> NULL
          @@ "Archiviert" :> 1) }

\* filter arguments of liste_tickets
HoleInputs == [creator_id : {NULL, 3}, archiviert : BOOLEAN]

SvcTicketErstellen ==
    /\ op.seq < MaxCalls
    /\ Len(tickets) < MaxTickets
    /\ \E a \in ErstellenInputs :
          /\ tickets' = svc_ticket_erstellen(tickets, a.titel, a.beschreibung,
                                             a.prioritaet, a.id_kunde, a.ersteller_id, now)
          /\ op' = [seq |-> op.seq + 1, name |-> "svc_ticket_erstellen", at |-> now,
                    args |-> a, ret |-> Len(tickets) + 1]
    /\ UNCHANGED <<users, now, walk>>

Aktualisiere ==
    /\ op.seq < MaxCalls
    /\ \E ticket_id \in 1..(Len(tickets) + 1), f \in FelderInputs :
          /\ tickets' = aktualisiere(tickets, ticket_id, f, now)
          /\ op' = [seq |-> op.seq + 1, name |-> "aktualisiere", at |-> now,
                    args |-> [ticket_id |-> ticket_id, felder |-> f]]
    /\ UNCHANGED <<users, now, walk>>

HoleTickets ==
    /\ \E a \in HoleInputs :
          \E rows \in hole_tickets(users, tickets, a.creator_id, a.archiviert,
                                   <<>>, NULL, "") :
              op' = [seq |-> op.seq, name |-> "hole_tickets", at |-> now,
                     args |-> a, ret |-> rows]
    /\ UNCHANGED <<users, tickets, now, walk>>

InitVariant ==
    /\ users = SeedMitarbeiter
    /\ tickets = <<>>
    /\ now = 1
    /\ op = NoCall
    /\ walk = [start |-> "Neu", cur |-> "Neu", calls |-> <<>>]

NextVariant == SvcTicketErstellen \/ Aktualisiere \/ HoleTickets \/ Tick

SpecVariant == InitVariant /\ [][NextVariant]_vars

----------------------------------------------------------------------------
(* Claims about the status engine, checked under SpecStatus *)

Known == {STATI[i] : i \in 1..Len(STATI)}

Calls == walk.calls

CallIdx == 1..Len(Calls)

\* C5: next(status) is the successor function of the sequence Neu, In
\* Bearbeitung, Warten auf Benutzer, Gelöst, Geschlossen: a status other than
\* the last yields the following one, Geschlossen yields Geschlossen, a value
\* outside the five statuses is returned unchanged; the transition table
\* NEXT_STATUS agrees on every status it lists.
C5_NextIsSuccessor ==
    \A i \in CallIdx :
        Calls[i].fn = "next_status" =>
            /\ \A k \in 1..4 : Calls[i].arg = STATI[k] => Calls[i].ret = STATI[k + 1]
            /\ Calls[i].arg = "Geschlossen" => Calls[i].ret = "Geschlossen"
            /\ Calls[i].arg \notin Known => Calls[i].ret = Calls[i].arg
            /\ Calls[i].arg \in DOMAIN NEXT_STATUS =>
                   Calls[i].ret = NEXT_STATUS[Calls[i].arg]

C5_Witness ==
    \E i, j \in CallIdx :
        /\ Calls[i].fn = "next_status" /\ Calls[i].arg = "Gelöst"
        /\ Calls[j].fn = "next_status" /\ Calls[j].arg = "Geschlossen"

\* C6: previous(status) is the predecessor function of the sequence: a status
\* other than the first yields the preceding one, Neu yields Neu, a value
\* outside the five statuses is returned unchanged; the transition table
\* PREV_STATUS agrees on every status it lists.
C6_PrevIsPredecessor ==
    \A i \in CallIdx :
        Calls[i].fn = "prev_status" =>
            /\ \A k \in 2..5 : Calls[i].arg = STATI[k] => Calls[i].ret = STATI[k - 1]
            /\ Calls[i].arg = "Neu" => Calls[i].ret = "Neu"
            /\ Calls[i].arg \notin Known => Calls[i].ret = Calls[i].arg
            /\ Calls[i].arg \in DOMAIN PREV_STATUS =>
                   Calls[i].ret = PREV_STATUS[Calls[i].arg]

C6_Witness ==
    \E i, j \in CallIdx :
        /\ Calls[i].fn = "prev_status" /\ Calls[i].arg = "In Bearbeitung"
        /\ Calls[j].fn = "prev_status" /\ Calls[j].arg = "Neu"

NonBoundary == {"In Bearbeitung", "Warten auf Benutzer", "Gelöst"}

\* the calls i-n+1 .. i are n consecutive applications of fn
RunOf(fn, n, i) == i >= n /\ \A j \in (i - n + 1)..i : Calls[j].fn = fn

\* C7: next(previous(s)) = s and previous(next(s)) = s for the non-boundary
\* statuses; four applications of next from any known status end in
\* Geschlossen and next keeps it there, four applications of previous end in
\* Neu and previous keeps it there.
C7_RoundTripAndClamp ==
    /\ \A i \in CallIdx :
          (i < Len(Calls) /\ Calls[i].arg \in NonBoundary) =>
              /\ (Calls[i].fn = "prev_status" /\ Calls[i + 1].fn = "next_status")
                    => Calls[i + 1].ret = Calls[i].arg
              /\ (Calls[i].fn = "next_status" /\ Calls[i + 1].fn = "prev_status")
                    => Calls[i + 1].ret = Calls[i].arg
    /\ \A i \in CallIdx :
          /\ (RunOf("next_status", 4, i) /\ Calls[i - 3].arg \in Known)
                => Calls[i].ret = "Geschlossen"
          /\ (RunOf("prev_status", 4, i) /\ Calls[i - 3].arg \in Known)
                => Calls[i].ret = "Neu"
          /\ (Calls[i].fn = "next_status" /\ Calls[i].arg = "Geschlossen")
                => Calls[i].ret = "Geschlossen"
          /\ (Calls[i].fn = "prev_status" /\ Calls[i].arg = "Neu")
                => Calls[i].ret = "Neu"

C7_Witness ==
    /\ Len(Calls) = 5
    /\ walk.start = "Neu"
    /\ RunOf("next_status", 4, 4)
    /\ Calls[5].fn = "prev_status"
    /\ walk.cur = "Gelöst"


----------------------------------------------------------------------------
(* Claims about the writing calls of the ticket service, checked under SpecTicket *)

TicketIds == {tickets[i].id : i \in 1..Len(tickets)}

TicketById(tid) == tickets[CHOOSE i \in 1..Len(tickets) : tickets[i].id = tid]

\* C1: right after create_ticket(title, description, category, priority,
\* creator_id) the new ticket has the first status of the sequence, is not
\* archived, has no assignee, carries the creator and the given title,
\* description, category and priority, and its created and updated
\* timestamps are equal.
C1_CreatedTicketFields ==
    op.name = "create_ticket" =>
        LET t == tickets[Len(tickets)]
        IN  /\ t.status = STATI[1]
            /\ t.archived = 0
            /\ t.assignee_id = NULL
            /\ t.creator_id = op.args.creator_id
            /\ t.title = op.args.title
            /\ t.description = op.args.description
            /\ t.category = op.args.category
            /\ t.priority = op.args.priority
            /\ t.created_at = t.updated_at

C1_Witness ==
    /\ op.name = "create_ticket"
    /\ Len(tickets) = 2
    /\ tickets[2].creator_id = 3
    /\ tickets[1].creator_id = 1

\* C3: update_ticket(id, {}) with an empty mapping writes nothing: every
\* stored ticket, the updated timestamp of ticket id included, is the same
\* before and after the call.
C3_EmptyUpdateWritesNothing ==
    [][(op'.seq # op.seq /\ op'.name = "update_ticket"
            /\ DOMAIN op'.args.fields = {})
        => tickets' = tickets]_vars

C3_Witness ==
    /\ op.name = "update_ticket"
    /\ DOMAIN op.args.fields = {}
    /\ Len(tickets) = 2
    /\ op.args.tid = 1
    /\ tickets[1].updated_at < op.at

\* C4: every update_ticket(id, fields) with a non-empty mapping sets the
\* updated timestamp of the ticket to the instant of the call, whatever the
\* mapping contains, a caller-supplied updated timestamp included.
C4_UpdateStampsCallInstant ==
    (/\ op.name = "update_ticket"
     /\ DOMAIN op.args.fields # {}
     /\ op.args.tid \in TicketIds)
        => TicketById(op.args.tid).updated_at = op.at

\* C11: create_ticket with a priority outside Niedrig, Normal, Hoch, Kritisch
\* stores the default priority Normal and not the given value; a priority
\* inside that set is stored as given.
C11_InvalidPriorityDefaults ==
    op.name = "create_ticket" =>
        tickets[Len(tickets)].priority =
            IF \E i \in 1..Len(PRIO) : PRIO[i] = op.args.priority
            THEN op.args.priority
            ELSE "Normal"

\* C12: create_ticket with a title or a description that is empty once the
\* surrounding whitespace is removed raises ValidationError and stores no
\* ticket: no stored ticket has such a title or description.
C12_BlankTicketRejected ==
    /\ (/\ op.name = "create_ticket"
        /\ (strip(op.args.title) = <<>> \/ strip(op.args.description) = <<>>))
          => op.raised = "ValidationError"
    /\ \A i \in 1..Len(tickets) :
           strip(tickets[i].title) # <<>> /\ strip(tickets[i].description) # <<>>

\* the columns update_ticket is documented to write
MutableColumns == {"status", "priority", "category", "assignee_id", "archived", "updated_at"}

\* C17: update_ticket writes only status, priority, category, assignee_id,
\* archived and updated_at: no call changes another column (id, title,
\* description, creator_id, created_at) of a stored ticket, whatever columns
\* the mapping names.
C17_OnlyMutableColumnsWritten ==
    [][\A i \in 1..Len(tickets) :
          \A c \in DOMAIN tickets[i] \ MutableColumns :
              tickets'[i][c] = tickets[i][c]]_vars

\* C19: update_ticket on an id no ticket has, and deactivate_user on an id no
\* user has, raise NotFoundError and leave the store as it was.
C19_MissingTargetRaises ==
    /\ (op.name = "update_ticket" /\ op.args.tid \notin TicketIds)
           => op.raised = "NotFoundError"
    /\ (op.name = "deactivate_user"
           /\ \A i \in 1..Len(users) : users[i].id # op.args.user_id)
           => op.raised = "NotFoundError"

\* C20: create_ticket returns the id of the ticket it has just stored, an id
\* no ticket stored before the call has.
C20_CreateReturnsNewId ==
    op.name = "create_ticket" =>
        /\ op.ret = tickets[Len(tickets)].id
        /\ \A i \in 1..(Len(tickets) - 1) : tickets[i].id # op.ret

----------------------------------------------------------------------------
(* Claims about the reading calls of the ticket service, checked under SpecQuery *)

\* C2: for every stored set of tickets and every combination of the other
\* filters, fetch_tickets with archived=False returns no archived ticket.
C2_NoArchivedRows ==
    (op.name = "fetch_tickets" /\ ~op.args.archived) =>
        \A i \in 1..Len(op.ret) : op.ret[i].archived = 0

C2_Witness ==
    /\ op.name = "fetch_tickets"
    /\ ~op.args.archived
    /\ op.args.search_term = <<"a">>
    /\ Len(op.ret) = 1
    /\ \E i \in 1..Len(tickets) :
          /\ tickets[i].archived = 1
          /\ fetch_where(tickets[i], op.args.creator_id, TRUE, op.args.search_term,
                         op.args.category, op.args.priority)

\* C10: for any stored set of tickets, the empty one included, the total of
\* get_ticket_stats is the number of tickets, archiviert the number of
\* archived tickets and each status bucket the number of tickets in that
\* status, each of them a number.
C10_StatsAreCounts ==
    op.name = "get_ticket_stats" =>
        /\ op.ret.total = Len(tickets)
        /\ op.ret.archiviert = count_where(tickets, "archived", 1)
        /\ op.ret.neue = count_where(tickets, "status", "Neu")
        /\ op.ret.in_bearbeitung = count_where(tickets, "status", "In Bearbeitung")
        /\ op.ret.geloest = count_where(tickets, "status", "Gelöst")

\* term occurs in text as a run of consecutive characters
Contains(text, term) ==
    \E k \in 0..(Len(text) - Len(term)) : SubSeq(text, k + 1, k + Len(term)) = term

\* the conjunction of the filters that are present in the arguments a
Matches(t, a) ==
    /\ a.archived \/ t.archived = 0
    /\ a.creator_id = NULL \/ t.creator_id = a.creator_id
    /\ a.category \in {"", "Alle"} \/ t.category = a.category
    /\ a.priority \in {"", "Alle"} \/ t.priority = a.priority
    /\ \/ a.search_term = <<>>
       \/ Contains(t.title, a.search_term)
       \/ Contains(t.description, a.search_term)

\* C15: fetch_tickets returns exactly the stored tickets that satisfy every
\* filter that is present: creator_id, category and priority by equality,
\* search_term as a substring of the title or of the description, and
\* archived = 0 unless archived tickets are asked for; a filter that is absent
\* excludes nothing.
C15_ExactlyTheMatchingTickets ==
    op.name = "fetch_tickets" =>
        /\ {op.ret[i].id : i \in 1..Len(op.ret)}
              = {tickets[i].id : i \in {j \in 1..Len(tickets) : Matches(tickets[j], op.args)}}
        /\ \A i, j \in 1..Len(op.ret) : op.ret[i].id = op.ret[j].id => i = j

----------------------------------------------------------------------------
(* Claims about the user service, checked under SpecAuth *)

\* the rows the lookup of the last login_user call matches
LoginRows == users_by_username(users, strip(op.args.username))

C9_LoginAfterCreate ==
    op.name = "login_user" =>
        \A i \in 1..Len(users) :
            (users[i].username = op.args.username /\ users[i].active = 1) =>
                IF users[i].password_hash.digest[2] = op.args.password
                THEN op.ret = <<[id |-> users[i].id, username |-> users[i].username,
                                 role |-> users[i].role]>>
                ELSE op.ret = <<>>

\* C13: deactivate_user on a user that is already inactive reports no error
\* and changes nothing: the record of that user (active flag and deleted_at)
\* after the second call equals the record after the first.
C13_DeactivateIdempotent ==
    [][(/\ op'.name = "deactivate_user"
        /\ \E i \in 1..Len(users) :
               users[i].id = op'.args.user_id /\ users[i].active = 0)
        => (users' = users /\ op'.raised = "")]_vars

C21_ListIsActiveUsersByName ==
    op.name = "list_users" =>
        /\ {op.ret[i].id : i \in 1..Len(op.ret)}
              = {users[i].id : i \in {j \in 1..Len(users) : users[j].active = 1}}
        /\ \A i, j \in 1..Len(op.ret) : op.ret[i].id = op.ret[j].id => i = j
        /\ \A i \in 1..(Len(op.ret) - 1) :
               str_le(op.ret[i].username, op.ret[i + 1].username)
        /\ \A i \in 1..Len(op.ret) : \E k \in 1..Len(users) :
               /\ users[k].id = op.ret[i].id
               /\ users[k].username = op.ret[i].username
               /\ users[k].role = op.ret[i].role

C21_Witness ==
    /\ op.name = "list_users"
    /\ Len(users) = 2
    /\ users[2].active = 0
    /\ Len(op.ret) = 1
    /\ op.ret[1].id = 1

----------------------------------------------------------------------------
(* Claims about listings between writing calls, checked under SpecBoard *)

\* C14: the rows fetch_tickets returns are in descending order of updated_at,
\* and a ticket written more recently than the others comes first: when the
\* last writing call was update_ticket with a non-empty mapping on a ticket
\* that is among the rows, that ticket is the first row.
C14_MostRecentlyUpdatedFirst ==
    op.name = "fetch_tickets" =>
        /\ \A i \in 1..(Len(op.ret) - 1) : op.ret[i].updated_at >= op.ret[i + 1].updated_at
        /\ (/\ op.last.name = "update_ticket"
            /\ DOMAIN op.last.args.fields # {}
            /\ \E i \in 1..Len(op.ret) : op.ret[i].id = op.last.args.tid)
              => op.ret[1].id = op.last.args.tid

----------------------------------------------------------------------------
(* Claims about the single-file variant, checked under SpecVariant *)

\* C16: every row hole_tickets returns carries as assignee name the name of
\* the employee the ticket is assigned to (the Geändert_von column the admin
\* form writes the employee in charge to), the empty name when nobody is
\* assigned: after a ticket is assigned to an employee the row names that
\* employee, never a name found through another column of the ticket.
C16_AssigneeNameOfAssignee ==
    op.name = "hole_tickets" =>
        \A i \in 1..Len(op.ret) :
            op.ret[i]["assignee_name"] = mitarbeiter_name(users, op.ret[i]["Geändert_von"])

\* C22: in every reachable state, after any sequence of ticket creations,
\* status moves and admin edits, the status of every stored ticket is one of
\* the five statuses of the status table.
C22_StatusAlwaysKnown ==
    \A i \in 1..Len(tickets) : tickets[i]["ID_Status"] \in StatusIds

\* C28: the creator of a ticket never changes after creation: no step (status
\* move, reassignment, archival, admin edit) changes the column the creator
\* filter of hole_tickets compares, nor the creator name hole_tickets returns
\* for the ticket.
C28_CreatorNeverChanges ==
    [][\A i \in 1..Len(tickets) :
          /\ tickets'[i]["Geändert_von"] = tickets[i]["Geändert_von"]
          /\ hole_tickets_row(users', tickets'[i])["creator_name"]
                = hole_tickets_row(users, tickets[i])["creator_name"]]_vars

----------------------------------------------------------------------------
(* Claims about soft deletion, checked under SpecSoftDelete *)

\* the user with this id is stored and deactivated
Inactive(user_id) ==
    \E k \in 1..Len(users) : users[k].id = user_id /\ users[k].active = 0

\* C23: no call removes a user or a ticket; deactivate_user changes only the
\* active flag and deleted_at of the user it names and no ticket; and every
\* ticket whose creator or assignee is deactivated keeps that reference and
\* is still returned by fetch_tickets when it passes the filters.
C23_SoftDeleteOnly ==
    /\ [][/\ Len(users') >= Len(users)
          /\ \A i \in 1..Len(users) :
                \A c \in DOMAIN users[i] \ {"active", "deleted_at"} :
                    users'[i][c] = users[i][c]
          /\ \A i \in 1..Len(users) :
                (op'.name = "deactivate_user" /\ users[i].id # op'.args.user_id)
                    => users'[i] = users[i]
          /\ tickets' = tickets]_vars
    /\ [](op.name = "fetch_tickets" =>
            \A i \in 1..Len(tickets) :
                (/\ Inactive(tickets[i].creator_id) \/ Inactive(tickets[i].assignee_id)
                 /\ Matches(tickets[i], op.args))
                    => \E k \in 1..Len(op.ret) :
                          /\ op.ret[k].id = tickets[i].id
                          /\ op.ret[k].creator_id = tickets[i].creator_id
                          /\ op.ret[k].assignee_id = tickets[i].assignee_id)

C23_Witness ==
    /\ op.name = "fetch_tickets"
    /\ \E k \in 1..Len(users) :
          /\ users[k].active = 0
          /\ users[k].deleted_at = now
          /\ \E i \in 1..Len(op.ret) :
                /\ op.ret[i].creator_id = users[k].id
                /\ op.ret[i].creator_name = users[k].username

----------------------------------------------------------------------------
(* Claims about the connection scope, checked under SpecConn *)

\* C24: every store operation has exactly one outcome. When the statement
\* and the commit raise nothing, the transaction is committed and its changes
\* are stored; when a step raises, the transaction is rolled back, the store
\* is as it was before the operation, and the exception reaches the caller
\* with the statement executed once, never again; and whenever a connection
\* was opened it is closed when the operation is over.
C24_OneOutcomePerScope ==
    (op.name = "query_execute" /\ op.pc = "done") =>
        /\ op.conn \in {"closed", "none"}
        /\ op.executed <= 1
        /\ op.raised = "" =>
              /\ op.outcome = "committed"
              /\ tickets = execute(op.before, op.stmt, op.at)
        /\ op.raised # "" =>
              /\ op.outcome = IF op.conn = "none" THEN "" ELSE "rolled back"
              /\ tickets = op.before

C24_Witness ==
    /\ op.name = "query_execute"
    /\ op.pc = "done"
    /\ op.conn = "closed"
    /\ op.executed = 1
    /\ op.raised = "Error"
    /\ op.outcome = "rolled back"
    /\ op.stmt.kind = "update_ticket"
    /\ Len(tickets) = 1

----------------------------------------------------------------------------
(* Claims about concurrent updates, checked under SpecRace *)

\* the columns the update of session s writes, updated_at included
Written(s) == DOMAIN op.sess[s].fields \cup {"updated_at"}

\* the value the update of session s writes to column c
ValueWritten(s, c) ==
    IF c \in DOMAIN op.sess[s].fields THEN op.sess[s].fields[c] ELSE op.sess[s].at

\* C25: when two sessions update the same ticket and both have committed, a
\* column both wrote, the updated timestamp included, holds the value of the
\* update that committed last, whichever was requested first, and a column
\* only one of them wrote holds the value of that update.
C25_LastCommitWins ==
    (op.name = "sessions" /\ Len(op.commits) = 2) =>
        LET first == op.commits[1]
            last == op.commits[2]
        IN  /\ \A c \in Written(last) : tickets[1][c] = ValueWritten(last, c)
            /\ \A c \in Written(first) \ Written(last) :
                   tickets[1][c] = ValueWritten(first, c)

C25_Witness ==
    /\ op.name = "sessions"
    /\ op.commits = <<"B", "A">>
    /\ op.sess["A"].at < op.sess["B"].at
    /\ op.sess["A"].fields = [status |-> "In Bearbeitung", updated_at |-> 1]
    /\ "status" \in DOMAIN op.sess["B"].fields
    /\ "priority" \in DOMAIN op.sess["B"].fields
    /\ tickets[1].status = "In Bearbeitung"
    /\ tickets[1].priority = "Hoch"
    /\ tickets[1].updated_at = 1

----------------------------------------------------------------------------
(* Claims about statistics under concurrent writes, checked under SpecStats *)

\* the counters of the stored set of tickets tbl
CountsOf(tbl) ==
    [total |-> Len(tbl),
     neue |-> count_where(tbl, "status", "Neu"),
     in_bearbeitung |-> count_where(tbl, "status", "In Bearbeitung"),
     geloest |-> count_where(tbl, "status", "Gelöst"),
     archiviert |-> count_where(tbl, "archived", 1)]

\* C26: the counters of one get_ticket_stats result come from one snapshot of
\* the tickets table, also when writes of other sessions commit during the
\* call: archiviert <= total, the status buckets add up to at most total, and
\* the result equals the counts of one state the store was in during the call.
C26_StatsFromOneSnapshot ==
    (op.name = "get_ticket_stats" /\ op.pc = "done") =>
        /\ op.ret.archiviert <= op.ret.total
        /\ op.ret.neue + op.ret.in_bearbeitung + op.ret.geloest <= op.ret.total
        /\ \E tbl \in op.seen : op.ret = CountsOf(tbl)

----------------------------------------------------------------------------
(* Claims checked under SpecKanban *)

\* C27: an arrow click writes next_status or prev_status of the status the
\* clicking session fetched, not of the stored one: when both sessions
\* fetched the ticket in the same status and each clicked forward, the
\* ticket stands one position after that status (or at the last status), and
\* the store holds what the last click wrote.
C27_ArrowMovesFromFetchedStatus ==
    /\ \A s \in Sessions :
          op.sess[s].pc = "clicked" =>
              LET from == ListIndex(STATI, op.sess[s].view[1].status)
                  to == ListIndex(STATI, op.sess[s].wrote)
              IN  to = IF op.sess[s].dir = "next" THEN Min(from + 1, Len(STATI))
                                                  ELSE Max(from - 1, 1)
    /\ op.last.by \in Sessions => TicketById(1).status = op.last.status
    /\ (\A s \in Sessions : op.sess[s].pc = "clicked" /\ op.sess[s].dir = "next"
                              /\ op.sess[s].view[1].status = "Neu")
          => TicketById(1).status = "In Bearbeitung"

\* a forward click on a stale card moved the stored status one position
\* backwards
C27_Witness ==
    \E s \in Sessions :
        /\ op.sess[s].pc = "clicked"
        /\ op.sess[s].dir = "next"
        /\ op.sess[Other(s)].pc = "clicked"
        /\ ListIndex(STATI, op.sess[s].before) = ListIndex(STATI, op.sess[s].wrote) + 1
        /\ TicketById(1).status = op.sess[s].wrote

\* both sessions fetched the ticket in status Neu, both clicked forward, and
\* the ticket stands in the status after Neu
C27_WitnessOneStep ==
    /\ \A s \in Sessions : op.sess[s].pc = "clicked" /\ op.sess[s].dir = "next"
                             /\ op.sess[s].view[1].status = "Neu"
    /\ TicketById(1).status = "In Bearbeitung"

----------------------------------------------------------------------------
(* Claims about the pages, checked under SpecPages *)

\* C29: only a session whose role is admin changes the archived flag of a
\* ticket; the kanban save of a session that is not admin writes the assignee
\* and the update instant only and leaves archived, status, priority and
\* category of every ticket as they were; the admin page is shown only to a
\* session whose role is admin.
C29_ArchiveOnlyByAdmin ==
    [][/\ (\E i \in 1..Len(tickets) : tickets'[i].archived # tickets[i].archived)
            => (is_logged_in(op.session) /\ op.session.role = "admin")
       /\ (op'.last.event = "kanban_save" /\ op'.seq # op.seq
              /\ op.session.role # "admin")
            => /\ DOMAIN op'.last.fields = {"assignee_id", "updated_at"}
               /\ \A i \in 1..Len(tickets) :
                     /\ tickets'[i].archived = tickets[i].archived
                     /\ tickets'[i].status = tickets[i].status
                     /\ tickets'[i].priority = tickets[i].priority
                     /\ tickets'[i].category = tickets[i].category
       /\ op'.page = "admin"
            => (is_logged_in(op'.session) /\ op'.session.role = "admin")]_vars

\* a session that is not admin saved a card and the ticket has the new
\* assignee
C29_Witness ==
    /\ op.last.event = "kanban_save"
    /\ is_logged_in(op.session)
    /\ op.session.role = "user"
    /\ op.last.fields.assignee_id = 1
    /\ TicketById(op.last.id).assignee_id = 1
    /\ TicketById(op.last.id).archived = 0

\* C30: no step of the user management page changes the active flag of the
\* session's own user; an active flag changes only by the deactivate button
\* when the selected user is not the session's user, the box is checked and
\* the typed text equals the selected username, and then only the selected
\* user's flag changes.
C30_NoSelfDeactivation ==
    [][/\ \A i \in 1..Len(users) :
             (is_logged_in(op.session) /\ users[i].id = op.session.user_id)
                => users'[i].active = users[i].active
       /\ (\E i \in 1..Len(users) : users'[i].active # users[i].active)
            => /\ op'.last.event = "deactivate"
               /\ op'.last.victim.id # op.session.user_id
               /\ op'.last.sure
               /\ op'.last.confirm = op'.last.victim.username
               /\ \A i \in 1..Len(users) :
                     users'[i].active # users[i].active
                        => users[i].id = op'.last.victim.id]_vars

\* the admin deactivated another user with the box checked and the name
\* typed
C30_Witness ==
    /\ op.last.event = "deactivate"
    /\ op.last.fired
    /\ op.session.role = "admin"
    /\ op.last.victim.id = 3
    /\ \E i \in 1..Len(users) : users[i].id = 3 /\ users[i].active = 0

====
